---- MODULE Spec2Model ----
(***************************************************************************)
(* The Tic Tac Toe application of src/tic_tac_toe_frontend/src/App.js as a *)
(* state machine.  The React state of the App component is the state; one  *)
(* action stands for one event (a cell click, a control button, the expiry *)
(* of the advisor's timer) together with the render and the effects that   *)
(* React runs for it before the next event is handled.                     *)
(***************************************************************************)
EXTENDS Integers, Sequences, FiniteSets, TLC

\* Rounds played to their end before the score has to be zeroed (newGame).
MaxRounds == 2

\* JavaScript null in a cell / as a winner, and null as a cell index.
Null == "null"
NullIdx == 0 - 1

Cells == 0..8
Modes == {"HUMAN_HUMAN", "HUMAN_AI"}
aiMark == "O"

LINES ==
  << <<0, 1, 2>>, <<3, 4, 5>>, <<6, 7, 8>>,
     <<0, 3, 6>>, <<1, 4, 7>>, <<2, 5, 8>>,
     <<0, 4, 8>>, <<2, 4, 6>> >>

EmptyBoard == [c \in Cells |-> Null]
ZeroScores == [X |-> 0, O |-> 0, draws |-> 0]

VARIABLES
  mode, board, xIsNext, scores, statusMessage, gameActive,  \* useState of App
  timer,      \* << >>, or << b >>: a pending setTimeout whose closure holds board b
  lastOp,     \* the last event handled and the return it took
  tally       \* rounds finished since the last newGame, by outcome

vars == <<mode, board, xIsNext, scores, statusMessage, gameActive, timer, lastOp, tally>>

----------------------------------------------------------------------------
\* Pure helpers

\* Mutant of LineDone: the test that squares[a] is set is missing.
LineDoneNoMark(squares, a, b, c) ==
  squares[a] = squares[b] /\ squares[a] = squares[c]

\* squares[a] && squares[a] === squares[b] && squares[a] === squares[c]
LineDone(squares, a, b, c) ==
  squares[a] # Null /\ squares[a] = squares[b] /\ squares[a] = squares[c]

Hit(squares, a, b, c) == [winner |-> squares[a], line |-> <<a, b, c>>]

\* The loop over LINES, unrolled: the first complete line returns.
calculateWinner(squares) ==
  IF      LineDone(squares, 0, 1, 2) THEN Hit(squares, 0, 1, 2)
  ELSE IF LineDone(squares, 3, 4, 5) THEN Hit(squares, 3, 4, 5)
  ELSE IF LineDone(squares, 6, 7, 8) THEN Hit(squares, 6, 7, 8)
  ELSE IF LineDone(squares, 0, 3, 6) THEN Hit(squares, 0, 3, 6)
  ELSE IF LineDone(squares, 1, 4, 7) THEN Hit(squares, 1, 4, 7)
  ELSE IF LineDone(squares, 2, 5, 8) THEN Hit(squares, 2, 5, 8)
  ELSE IF LineDone(squares, 0, 4, 8) THEN Hit(squares, 0, 4, 8)
  ELSE IF LineDone(squares, 2, 4, 6) THEN Hit(squares, 2, 4, 6)
  ELSE [winner |-> Null, line |-> << >>]

\* Mutant of emptyIndices: .filter((v) => v) for .filter((v) => v !== null),
\* which drops index 0.
emptyIndicesTruthy(squares) ==
  SelectSeq(<<1, 2, 3, 4, 5, 6, 7, 8>>, LAMBDA idx : squares[idx] = Null)

emptyIndices(squares) ==
  SelectSeq(<<0, 1, 2, 3, 4, 5, 6, 7, 8>>, LAMBDA idx : squares[idx] = Null)

includes(seq, v) == \E n \in 1..Len(seq) : seq[n] = v

tryMove(squares, idx, mark) ==
  calculateWinner([squares EXCEPT ![idx] = mark]).winner = mark

\* "for (const idx of available) if (tryMove(idx, mark)) return idx":
\* the first such idx, NullIdx when the loop falls through.
firstWinning(squares, available, mark) ==
  LET hits == {n \in 1..Len(available) : tryMove(squares, available[n], mark)}
  IN  IF hits = {} THEN NullIdx
      ELSE available[CHOOSE h \in hits : \A j \in hits : h <= j]

\* Mutant of computeAIMove: the block loop is missing.
computeAIMoveNoBlock(squares, ai, human) ==
  LET available == emptyIndices(squares)
      win       == firstWinning(squares, available, ai)
      corners   == SelectSeq(<<0, 2, 6, 8>>, LAMBDA c : includes(available, c))
      sides     == SelectSeq(<<1, 3, 5, 7>>, LAMBDA s : includes(available, s))
  IN  IF Len(available) = 0 THEN {NullIdx}
      ELSE IF win # NullIdx THEN {win}
      ELSE IF includes(available, 4) THEN {4}
      ELSE IF Len(corners) > 0 THEN {corners[n] : n \in 1..Len(corners)}
      ELSE IF Len(sides) > 0 THEN {sides[n] : n \in 1..Len(sides)}
      ELSE {available[1]}

\* Mutant of computeAIMove: the block loop runs before the win loop.
computeAIMoveBlockFirst(squares, ai, human) ==
  LET available == emptyIndices(squares)
      win       == firstWinning(squares, available, ai)
      block     == firstWinning(squares, available, human)
      corners   == SelectSeq(<<0, 2, 6, 8>>, LAMBDA c : includes(available, c))
      sides     == SelectSeq(<<1, 3, 5, 7>>, LAMBDA s : includes(available, s))
  IN  IF Len(available) = 0 THEN {NullIdx}
      ELSE IF block # NullIdx THEN {block}
      ELSE IF win # NullIdx THEN {win}
      ELSE IF includes(available, 4) THEN {4}
      ELSE IF Len(corners) > 0 THEN {corners[n] : n \in 1..Len(corners)}
      ELSE IF Len(sides) > 0 THEN {sides[n] : n \in 1..Len(sides)}
      ELSE {available[1]}

\* The cells computeAIMove may return, {NullIdx} for null: one cell, except in
\* the corner and side tiers, where Math.floor(Math.random() * n) picks any of
\* the n candidates.
computeAIMove(squares, ai, human) ==
  LET available == emptyIndices(squares)
      win       == firstWinning(squares, available, ai)
      block     == firstWinning(squares, available, human)
      corners   == SelectSeq(<<0, 2, 6, 8>>, LAMBDA c : includes(available, c))
      sides     == SelectSeq(<<1, 3, 5, 7>>, LAMBDA s : includes(available, s))
  IN  IF Len(available) = 0 THEN {NullIdx}
      ELSE IF win # NullIdx THEN {win}
      ELSE IF block # NullIdx THEN {block}
      ELSE IF includes(available, 4) THEN {4}
      ELSE IF Len(corners) > 0 THEN {corners[n] : n \in 1..Len(corners)}
      ELSE IF Len(sides) > 0 THEN {sides[n] : n \in 1..Len(sides)}
      ELSE {available[1]}

----------------------------------------------------------------------------
\* The component: what a render derives, the two effects, the handlers

\* The React state as one record.
Cur ==
  [mode |-> mode, board |-> board, xIsNext |-> xIsNext, scores |-> scores,
   statusMessage |-> statusMessage, gameActive |-> gameActive]

\* The values a render derives from the state st.
winner(st) == calculateWinner(st.board).winner
line(st) == calculateWinner(st.board).line
movesLeft(st) == Len(emptyIndices(st.board))
currentPlayer(st) == IF st.xIsNext THEN "X" ELSE "O"
canPlay(st) == st.gameActive /\ winner(st) = Null

\* Mutant of StatusEffect: the win branch forgets setGameActive(false).
StatusEffectWinStaysActive(st) ==
  LET w == winner(st) IN
  IF w # Null
  THEN [st EXCEPT !.statusMessage = "Winner: " \o w,
                  !.scores = [@ EXCEPT ![w] = @ + 1]]
  ELSE IF movesLeft(st) = 0
  THEN [st EXCEPT !.statusMessage = "Draw!",
                  !.gameActive = FALSE,
                  !.scores = [@ EXCEPT !.draws = @ + 1]]
  ELSE [st EXCEPT !.statusMessage = "Turn: " \o currentPlayer(st)]

\* Mutant of StatusEffect: the full board is tested before the winner.
StatusEffectDrawFirst(st) ==
  LET w == winner(st) IN
  IF movesLeft(st) = 0
  THEN [st EXCEPT !.statusMessage = "Draw!",
                  !.gameActive = FALSE,
                  !.scores = [@ EXCEPT !.draws = @ + 1]]
  ELSE IF w # Null
  THEN [st EXCEPT !.statusMessage = "Winner: " \o w,
                  !.gameActive = FALSE,
                  !.scores = [@ EXCEPT ![w] = @ + 1]]
  ELSE [st EXCEPT !.statusMessage = "Turn: " \o currentPlayer(st)]

\* The body of the status effect in a render of st.
StatusEffect(st) ==
  LET w == winner(st) IN
  IF w # Null
  THEN [st EXCEPT !.statusMessage = "Winner: " \o w,
                  !.gameActive = FALSE,
                  !.scores = [@ EXCEPT ![w] = @ + 1]]
  ELSE IF movesLeft(st) = 0
  THEN [st EXCEPT !.statusMessage = "Draw!",
                  !.gameActive = FALSE,
                  !.scores = [@ EXCEPT !.draws = @ + 1]]
  ELSE [st EXCEPT !.statusMessage = "Turn: " \o currentPlayer(st)]

\* Mutant of clearTimeout: the effect returns no cleanup, the timer stays.
clearTimeoutKeeps(tm) == tm

\* The cleanup the AI effect returns: clearTimeout(timer).
clearTimeout(tm) == << >>

\* Mutant of AIEffect: the turn test is inverted (xIsNext for !xIsNext).
AIEffectOnHumanTurn(st, tm) ==
  IF ~st.gameActive \/ winner(st) # Null THEN clearTimeout(tm)
  ELSE IF st.mode = "HUMAN_AI" /\ st.xIsNext THEN << st.board >>
  ELSE clearTimeout(tm)

\* Mutant of AIEffect: the turn test is missing.
AIEffectAnyTurn(st, tm) ==
  IF ~st.gameActive \/ winner(st) # Null THEN clearTimeout(tm)
  ELSE IF st.mode = "HUMAN_AI" THEN << st.board >>
  ELSE clearTimeout(tm)

\* The AI effect re-run in a render of st: the previous run's cleanup, then the
\* body, which may schedule a timer whose callback closes over st.board.
AIEffect(st, tm) ==
  IF ~st.gameActive \/ winner(st) # Null THEN clearTimeout(tm)
  ELSE IF st.mode = "HUMAN_AI" /\ ~st.xIsNext THEN << st.board >>
  ELSE clearTimeout(tm)

\* The status effect runs in a render when one of its dependencies
\* [winner, movesLeft, currentPlayer] differs from the previous render's.
StatusRuns(prev, upd) ==
  \/ currentPlayer(upd) # currentPlayer(prev)
  \/ movesLeft(upd) # movesLeft(prev)
  \/ winner(upd) # winner(prev)

\* Mutant of CommitState: gameActive is among the status effect's
\* dependencies, so the effect runs again in the render that its own
\* setGameActive(false) causes.
CommitStateStatusTwice(prev, upd) ==
  LET s2 == IF StatusRuns(prev, upd) \/ upd.gameActive # prev.gameActive
            THEN StatusEffect(upd) ELSE upd
  IN  IF s2.gameActive # upd.gameActive THEN StatusEffect(s2) ELSE s2

\* The React state once the render that follows a handler (which turned the
\* state prev into upd) and its effects are through.  The status effect's own
\* setState calls cause a second render, in which its dependencies are as in
\* the first, so it does not run again.
CommitState(prev, upd) ==
  IF StatusRuns(prev, upd) THEN StatusEffect(upd) ELSE upd

\* The pending timer once those renders are through.  The AI effect runs in a
\* render when one of [mode, xIsNext, board, aiMark, winner, gameActive]
\* differs from the previous render's; board is compared by identity, and
\* boardSet says that the handler called setBoard (always with a fresh array).
\* In the second render only gameActive can differ.
CommitTimer(prev, upd, boardSet, tm) ==
  LET s2 == CommitState(prev, upd)
      aiRun1 == \/ boardSet
                \/ upd.mode # prev.mode
                \/ upd.xIsNext # prev.xIsNext
                \/ upd.gameActive # prev.gameActive
                \/ winner(upd) # winner(prev)
      t1 == IF aiRun1 THEN AIEffect(upd, tm) ELSE tm
      aiRun2 == s2.gameActive # upd.gameActive
  IN  IF aiRun2 THEN AIEffect(s2, t1) ELSE t1

\* Mutant of handleClick: the occupied-cell test is missing.
handleClickNoOccupied(st, i) ==
  IF ~canPlay(st) THEN [path |-> "inactive", st |-> st]
  ELSE IF st.mode = "HUMAN_AI" /\ ~st.xIsNext THEN [path |-> "aiTurn", st |-> st]
  ELSE [path |-> "placed",
        st   |-> [st EXCEPT !.board = [@ EXCEPT ![i] = currentPlayer(st)],
                            !.xIsNext = ~st.xIsNext]]

\* Mutant of handleClick: the advisor's-turn test is missing.
handleClickNoAITurn(st, i) ==
  IF ~canPlay(st) THEN [path |-> "inactive", st |-> st]
  ELSE IF st.board[i] # Null THEN [path |-> "occupied", st |-> st]
  ELSE [path |-> "placed",
        st   |-> [st EXCEPT !.board = [@ EXCEPT ![i] = currentPlayer(st)],
                            !.xIsNext = ~st.xIsNext]]

\* Mutant of handleClick: the active mark is not flipped.
handleClickNoFlip(st, i) ==
  IF ~canPlay(st) THEN [path |-> "inactive", st |-> st]
  ELSE IF st.board[i] # Null THEN [path |-> "occupied", st |-> st]
  ELSE IF st.mode = "HUMAN_AI" /\ ~st.xIsNext THEN [path |-> "aiTurn", st |-> st]
  ELSE [path |-> "placed",
        st   |-> [st EXCEPT !.board = [@ EXCEPT ![i] = currentPlayer(st)]]]

\* Mutant of handleClick: the next board is a fresh array, not board.slice().
handleClickFreshArray(st, i) ==
  IF ~canPlay(st) THEN [path |-> "inactive", st |-> st]
  ELSE IF st.board[i] # Null THEN [path |-> "occupied", st |-> st]
  ELSE IF st.mode = "HUMAN_AI" /\ ~st.xIsNext THEN [path |-> "aiTurn", st |-> st]
  ELSE [path |-> "placed",
        st   |-> [st EXCEPT !.board = [c \in 0..8 |-> IF c = i THEN currentPlayer(st) ELSE Null],
                            !.xIsNext = ~st.xIsNext]]

\* Mutant of handleClick: the canPlay test is missing.
handleClickNoCanPlay(st, i) ==
  IF st.board[i] # Null THEN [path |-> "occupied", st |-> st]
  ELSE IF st.mode = "HUMAN_AI" /\ ~st.xIsNext THEN [path |-> "aiTurn", st |-> st]
  ELSE [path |-> "placed",
        st   |-> [st EXCEPT !.board = [@ EXCEPT ![i] = currentPlayer(st)],
                            !.xIsNext = ~st.xIsNext]]

\* handleClick(i) in a render of st: the return it takes and the state after
\* its setState calls.
handleClick(st, i) ==
  IF ~canPlay(st) THEN [path |-> "inactive", st |-> st]
  ELSE IF st.board[i] # Null THEN [path |-> "occupied", st |-> st]
  ELSE IF st.mode = "HUMAN_AI" /\ ~st.xIsNext THEN [path |-> "aiTurn", st |-> st]
  ELSE [path |-> "placed",
        st   |-> [st EXCEPT !.board = [@ EXCEPT ![i] = currentPlayer(st)],
                            !.xIsNext = ~st.xIsNext]]

\* Mutant of restartGame: setGameActive(true) is missing.
restartGameStaysInactive(st, hard) ==
  [st EXCEPT !.board = EmptyBoard,
             !.xIsNext = TRUE,
             !.statusMessage = "New round. Turn: X",
             !.scores = IF hard THEN ZeroScores ELSE @]

\* Mutant of restartGame: the scores are zeroed whatever hard is.
restartGameAlwaysHard(st, hard) ==
  [st EXCEPT !.board = EmptyBoard,
             !.xIsNext = TRUE,
             !.gameActive = TRUE,
             !.statusMessage = "New round. Turn: X",
             !.scores = ZeroScores]

restartGame(st, hard) ==
  [st EXCEPT !.board = EmptyBoard,
             !.xIsNext = TRUE,
             !.gameActive = TRUE,
             !.statusMessage = "New round. Turn: X",
             !.scores = IF hard THEN ZeroScores ELSE @]

\* Mutant of handleModeChange: setMode(newMode) is missing.
handleModeChangeKeepsMode(st, newMode) == restartGame(st, FALSE)

handleModeChange(st, newMode) ==
  restartGame([st EXCEPT !.mode = newMode], FALSE)

\* Mutant of startNewGame: restartGame is called without hard.
startNewGameSoft(st) == restartGame(st, FALSE)

startNewGame(st) == restartGame(st, TRUE)

\* Mutant of timerCallback: setXIsNext(true) is missing.
timerCallbackNoTurn(st, captured, idx) ==
  IF idx # NullIdx /\ captured[idx] = Null
  THEN [st EXCEPT !.board = [captured EXCEPT ![idx] = aiMark]]
  ELSE st

\* The setTimeout callback, closing over the board of the render that scheduled
\* it: the state after its setState calls.
\* idx is the cell computeAIMove(board, aiMark, 'X') returned.
timerCallback(st, captured, idx) ==
  IF idx # NullIdx /\ captured[idx] = Null
  THEN [st EXCEPT !.board = [captured EXCEPT ![idx] = aiMark],
                  !.xIsNext = TRUE]
  ELSE st

----------------------------------------------------------------------------
\* Bookkeeping of the rounds played, independent of the component's own

HasLine(b, m) ==
  \E k \in 1..Len(LINES) :
    b[LINES[k][1]] = m /\ b[LINES[k][2]] = m /\ b[LINES[k][3]] = m

Full(b) == \A c \in Cells : b[c] # Null

Outcome(b) ==
  IF HasLine(b, "X") THEN "X"
  ELSE IF HasLine(b, "O") THEN "O"
  ELSE IF Full(b) THEN "draws"
  ELSE "none"

Total(t) == t.X + t.O + t.draws

\* The tally after a placement turned board b into nb.
Tallied(t, b, nb) ==
  IF nb = b THEN t
  ELSE LET o == Outcome(nb)
       IN  IF o # "none" /\ Outcome(b) = "none" THEN [t EXCEPT ![o] = @ + 1] ELSE t

\* A reset that keeps the score starts a further round only below MaxRounds.
MayStartRound == Total(tally) < MaxRounds \/ Outcome(board) = "none"

----------------------------------------------------------------------------
\* The state machine

SetState(st) ==
  /\ board' = st.board
  /\ xIsNext' = st.xIsNext
  /\ mode' = st.mode
  /\ scores' = st.scores
  /\ statusMessage' = st.statusMessage
  /\ gameActive' = st.gameActive

\* After mount: the useState initial values, and the status effect's first run
\* (it replaces 'Choose a mode and start playing!' by the turn).
Init ==
  /\ mode = "HUMAN_HUMAN"
  /\ board = EmptyBoard
  /\ xIsNext = TRUE
  /\ scores = ZeroScores
  /\ statusMessage = "Turn: X"
  /\ gameActive = TRUE
  /\ timer = << >>
  /\ lastOp = [op |-> "mount", path |-> "none"]
  /\ tally = ZeroScores

\* A click on cell i.  A rejected click sets no state: no render follows.
Click(i) ==
  LET h == handleClick(Cur, i)
  IN  /\ lastOp' = [op |-> "click", path |-> h.path]
      /\ IF h.path = "placed"
         THEN /\ SetState(CommitState(Cur, h.st))
              /\ timer' = CommitTimer(Cur, h.st, TRUE, timer)
         ELSE UNCHANGED <<mode, board, xIsNext, scores, statusMessage, gameActive, timer>>
      /\ tally' = Tallied(tally, board, h.st.board)

\* The cells the pending timer's callback may get from computeAIMove.
PendingMoves ==
  IF timer = << >> THEN {} ELSE computeAIMove(timer[1], aiMark, "X")

\* The pending timer expires; its callback gets idx from computeAIMove.  A
\* callback that sets no state causes no render.
TimerFire(idx) ==
  /\ timer # << >>
  /\ LET upd == timerCallback(Cur, timer[1], idx)
     IN  /\ lastOp' = [op |-> "timer", path |-> IF upd # Cur THEN "placed" ELSE "none"]
         /\ IF upd # Cur
            THEN /\ SetState(CommitState(Cur, upd))
                 /\ timer' = CommitTimer(Cur, upd, TRUE, << >>)
            ELSE /\ UNCHANGED <<mode, board, xIsNext, scores, statusMessage, gameActive>>
                 /\ timer' = << >>
         /\ tally' = Tallied(tally, board, upd.board)

\* What a reset finds: an advisor move pending, or none.
Pending == IF timer # << >> THEN "pending" ELSE "none"

RestartRound ==
  /\ MayStartRound
  /\ lastOp' = [op |-> "restartRound", path |-> Pending]
  /\ SetState(CommitState(Cur, restartGame(Cur, FALSE)))
  /\ timer' = CommitTimer(Cur, restartGame(Cur, FALSE), TRUE, timer)
  /\ UNCHANGED tally

NewGame ==
  /\ lastOp' = [op |-> "newGame", path |-> Pending]
  /\ SetState(CommitState(Cur, startNewGame(Cur)))
  /\ timer' = CommitTimer(Cur, startNewGame(Cur), TRUE, timer)
  /\ tally' = ZeroScores

ChangeMode(newMode) ==
  /\ MayStartRound
  /\ lastOp' = [op |-> "changeMode", path |-> Pending]
  /\ SetState(CommitState(Cur, handleModeChange(Cur, newMode)))
  /\ timer' = CommitTimer(Cur, handleModeChange(Cur, newMode), TRUE, timer)
  /\ UNCHANGED tally

Next ==
  \/ \E i \in Cells : Click(i)
  \/ \E idx \in PendingMoves : TimerFire(idx)
  \/ RestartRound
  \/ NewGame
  \/ \E m \in Modes : ChangeMode(m)

Spec == Init /\ [][Next]_vars

\* A timer set by setTimeout(..., 400) and not cleared expires: the browser
\* runs its callback.
FairSpec == Spec /\ WF_vars(\E idx \in PendingMoves : TimerFire(idx))

----------------------------------------------------------------------------
\* The pure helpers applied to any board: the state is the board passed and,
\* in lastOp, the call made and what it returned.

Boards == [Cells -> {Null, "X", "O"}]
PlayerMarks == {"X", "O"}
Other(m) == IF m = "X" THEN "O" ELSE "X"

FnInit ==
  /\ board \in Boards
  /\ lastOp = [op |-> "input"]
  /\ mode = "HUMAN_AI"
  /\ xIsNext = FALSE
  /\ scores = ZeroScores
  /\ statusMessage = ""
  /\ gameActive = TRUE
  /\ timer = << >>
  /\ tally = ZeroScores

CallCalculateWinner ==
  /\ lastOp.op = "input"
  /\ lastOp' = [op |-> "calculateWinner", ret |-> calculateWinner(board)]
  /\ UNCHANGED <<mode, board, xIsNext, scores, statusMessage, gameActive, timer, tally>>

CallComputeAIMove(ai) ==
  /\ lastOp.op = "input"
  /\ \E idx \in computeAIMove(board, ai, Other(ai)) :
       lastOp' = [op |-> "computeAIMove", ai |-> ai, ret |-> idx]
  /\ UNCHANGED <<mode, board, xIsNext, scores, statusMessage, gameActive, timer, tally>>

FnNext ==
  \/ CallCalculateWinner
  \/ \E ai \in PlayerMarks : CallComputeAIMove(ai)

FnSpec == FnInit /\ [][FnNext]_vars

TypeOK ==
  /\ mode \in Modes
  /\ board \in [Cells -> {Null, "X", "O"}]
  /\ xIsNext \in BOOLEAN
  /\ gameActive \in BOOLEAN
  /\ scores.X \in Nat /\ scores.O \in Nat /\ scores.draws \in Nat
  /\ Len(timer) <= 1

----------------------------------------------------------------------------
\* Properties

HasAnyLine(b) == HasLine(b, "X") \/ HasLine(b, "O")
Marks(b) == {c \in Cells : b[c] # Null}
Resets == {"restartRound", "newGame", "changeMode"}
IsClick == lastOp'.op = "click"

\* C1: a click on cell i when the round is over (a line is complete or
\* gameActive is false) or when cell i is occupied changes nothing: board,
\* active mark, mode, score, gameActive, status and pending timer stay as
\* they are.  (Stated contrapositively: a click step that changes any of them
\* is made in a running round and is a click on no occupied cell.)
C1_RejectedClickIsNoOp ==
  [][IsClick =>
       \/ UNCHANGED <<board, xIsNext, mode, scores, gameActive, statusMessage, timer>>
       \/ /\ gameActive /\ ~HasAnyLine(board)
          /\ \A i \in Cells : board[i] # Null => ~Click(i)]_vars

\* A click on an occupied cell of a running round was made and rejected.
C1_Witness ==
  /\ lastOp = [op |-> "click", path |-> "occupied"]
  /\ gameActive
  /\ Marks(board) # {}

\* C2: in HUMAN_AI mode while O is the active mark, no click on any cell
\* changes the board or the active mark; and as long as the round is running
\* there, the advisor's move is pending.
C2_NoClickOnAdvisorTurn ==
  [][/\ (mode = "HUMAN_AI" /\ ~xIsNext /\ IsClick) => UNCHANGED <<board, xIsNext>>
     /\ (mode = "HUMAN_AI" /\ ~xIsNext /\ gameActive) => timer = << board >>]_vars

\* A click was made while the advisor's move was pending.
C2_Witness ==
  /\ lastOp = [op |-> "click", path |-> "aiTurn"]
  /\ mode = "HUMAN_AI" /\ ~xIsNext /\ timer # << >>

\* C3: a click on an empty cell i of a running round, when it is not the
\* advisor's turn, sets cell i to the active mark, leaves the other cells
\* alone and flips the active mark; on an empty board it places X.
C3_AcceptedClick ==
  [][(/\ IsClick
      /\ gameActive /\ ~(mode = "HUMAN_AI" /\ ~xIsNext)
      /\ ~HasAnyLine(board))
     => \A i \in Cells :
          (board[i] = Null /\ Click(i))
            => /\ board' = [board EXCEPT ![i] = IF xIsNext THEN "X" ELSE "O"]
               /\ xIsNext' = ~xIsNext
               /\ (board = EmptyBoard => board'[i] = "X")]_vars

\* The first click of a round was accepted.
C3_Witness ==
  /\ lastOp = [op |-> "click", path |-> "placed"]
  /\ Cardinality(Marks(board)) = 1
  /\ ~xIsNext

\* C4: a placement that completes a line for mark m adds 1 to m's score,
\* leaves the other score and the draws alone, ends the round and sets the
\* status to "Winner: m".
C4_WinScored ==
  [][\A m \in {"X", "O"} :
       (board' # board /\ ~HasAnyLine(board) /\ HasLine(board', m))
       => /\ scores' = [scores EXCEPT ![m] = @ + 1]
          /\ gameActive' = FALSE
          /\ statusMessage' = "Winner: " \o m]_vars

\* The advisor has just completed a line.
C4_Witness ==
  /\ lastOp = [op |-> "timer", path |-> "placed"]
  /\ HasLine(board, "O")
  /\ scores.O > 0

\* C5: a placement that fills the ninth cell without a line adds 1 to draws,
\* leaves both marks' scores alone, ends the round and sets the status to
\* "Draw!"; a ninth placement that completes a line is scored for that mark
\* and leaves draws alone.
C5_DrawScored ==
  [][(board' # board /\ Full(board'))
     => IF HasAnyLine(board')
        THEN /\ scores'.draws = scores.draws
             /\ \E m \in {"X", "O"} :
                  HasLine(board', m) /\ scores' = [scores EXCEPT ![m] = @ + 1]
        ELSE /\ scores' = [scores EXCEPT !.draws = @ + 1]
             /\ gameActive' = FALSE
             /\ statusMessage' = "Draw!"]_vars

\* The ninth placement has just ended a round in a draw.
C5_Witness ==
  /\ lastOp.path = "placed"
  /\ Full(board) /\ ~HasAnyLine(board)
  /\ scores.draws > 0

\* C6: the three score counters equal the tally of the rounds finished since
\* the last newGame: every finished round is counted once, for its outcome,
\* and a round abandoned by a reset counts nothing.
C6_ScoresEqualTally == scores = tally

\* Two rounds with different outcomes have been played to their end.
C6_Witness ==
  /\ tally.X = 1 /\ tally.draws = 1
  /\ scores = tally

\* C7: gameActive is false exactly when the board has a complete line or no
\* empty cell.
C7_ActiveIffRunning == (gameActive = FALSE) <=> (HasAnyLine(board) \/ Full(board))

\* A round that X won with cells to spare is inactive.
C7_Witness ==
  /\ ~gameActive
  /\ HasLine(board, "X") /\ ~Full(board)

\* C8: a click or an advisor move leaves every occupied cell as it is; a cell
\* loses its mark only in a restartRound, newGame or changeMode, which leave
\* all nine cells empty.
C8_MarksStay ==
  [][/\ lastOp'.op \in {"click", "timer"}
          => \A c \in Cells : board[c] # Null => board'[c] = board[c]
     /\ lastOp'.op \in Resets => board' = EmptyBoard
     /\ \A c \in Cells :
          (board[c] # Null /\ board'[c] # board[c])
            => (lastOp'.op \in Resets /\ board' = EmptyBoard)]_vars

\* The advisor has moved on a board that held marks of both sides.
C8_Witness ==
  /\ lastOp = [op |-> "timer", path |-> "placed"]
  /\ Cardinality(Marks(board)) >= 4

\* The fixed lines that are complete on board b.
CompleteLines(b) ==
  {k \in 1..Len(LINES) :
     /\ b[LINES[k][1]] # Null
     /\ b[LINES[k][1]] = b[LINES[k][2]]
     /\ b[LINES[k][1]] = b[LINES[k][3]]}

\* C9 as stated: at most one of the 8 fixed lines is complete.
C9_AtMostOneLine == Cardinality(CompleteLines(board)) <= 1

\* C9, amended: at most two lines are complete, and at most one in HUMAN_AI
\* mode; all complete lines hold the same mark, which is the winner
\* calculateWinner reports, and two complete lines cross in one cell.
C9_CompleteLinesOneMark ==
  /\ Cardinality(CompleteLines(board)) <= 2
  /\ mode = "HUMAN_AI" => Cardinality(CompleteLines(board)) <= 1
  /\ ~(HasLine(board, "X") /\ HasLine(board, "O"))
  /\ \A k \in CompleteLines(board) :
       /\ board[LINES[k][1]] = calculateWinner(board).winner
       /\ \A j \in CompleteLines(board) \ {k} :
            Cardinality({LINES[k][n] : n \in 1..3} \cap {LINES[j][n] : n \in 1..3}) = 1

\* One placement has completed two lines.
C9_Witness == Cardinality(CompleteLines(board)) = 2

\* C10: a restartRound, newGame or changeMode leaves no advisor move pending;
\* a pending move always closes over the current board, so none is left from
\* an earlier round; and the first mark on a cleared board is an X placed by
\* a click.
C10_ResetCancelsTimer ==
  [][/\ lastOp'.op \in Resets
          => (timer' = << >> /\ board' = EmptyBoard /\ xIsNext')
     /\ timer' # << >> => timer'[1] = board'
     /\ (board = EmptyBoard /\ board' # board)
          => /\ lastOp'.op = "click"
             /\ \E i \in Cells : board' = [EmptyBoard EXCEPT ![i] = "X"]]_vars

\* A reset was made while an advisor move was pending.
C10_Witness ==
  /\ lastOp.op \in Resets /\ lastOp.path = "pending"
  /\ timer = << >> /\ board = EmptyBoard

\* C11: in HUMAN_AI mode, while the round is active, no line is complete and
\* O is the active mark, the advisor's move is pending on the current board;
\* unless a reset intervenes, the timer's expiry places O in a cell that
\* computeAIMove returns for the current board and makes X the active mark,
\* and the placement is evaluated as a click's is: a completed line or a full
\* board ends the round and is scored, otherwise the round goes on.
AdvisorDue == mode = "HUMAN_AI" /\ gameActive /\ ~HasAnyLine(board) /\ ~xIsNext
AdvisorPlaced == lastOp = [op |-> "timer", path |-> "placed"]

C11_AdvisorMoves ==
  /\ [][lastOp'.op = "timer"
          => /\ AdvisorDue
             /\ \E idx \in computeAIMove(board, "O", "X") :
                  /\ idx \in Cells /\ board[idx] = Null
                  /\ board' = [board EXCEPT ![idx] = "O"]
             /\ xIsNext'
             /\ mode' = mode
             /\ LET o == Outcome(board')
                IN  /\ gameActive' = (o = "none")
                    /\ scores' = IF o = "none" THEN scores
                                 ELSE [scores EXCEPT ![o] = @ + 1]
                    /\ statusMessage' = CASE o = "none" -> "Turn: X"
                                           [] o = "draws" -> "Draw!"
                                           [] OTHER -> "Winner: " \o o]_vars
  /\ (AdvisorDue ~> (AdvisorPlaced \/ lastOp.op \in Resets))

\* The advisor has placed its O and the round goes on with X.
C11_Witness ==
  /\ AdvisorPlaced /\ mode = "HUMAN_AI" /\ gameActive /\ xIsNext
  /\ Cardinality(Marks(board)) = 2

Count(b, m) == Cardinality({c \in Cells : b[c] = m})

\* C12: the first mark placed on an empty board is an X; in HUMAN_AI mode a
\* click places X only and the timer's expiry places O only; the advisor
\* places only in HUMAN_AI mode while O is the active mark, and never on an
\* empty board.
C12_XFirstAdvisorO ==
  [][/\ (board = EmptyBoard /\ board' # board)
          => \E i \in Cells : board' = [EmptyBoard EXCEPT ![i] = "X"]
     /\ (mode = "HUMAN_AI" /\ board' # board /\ lastOp'.op \notin Resets)
          => /\ lastOp'.op \in {"click", "timer"}
             /\ \A c \in Cells :
                  board'[c] # board[c]
                    => board'[c] = IF lastOp'.op = "click" THEN "X" ELSE "O"
     /\ lastOp'.op = "timer"
          => mode = "HUMAN_AI" /\ ~xIsNext /\ board # EmptyBoard]_vars

\* In HUMAN_AI mode the human has placed a second X after the advisor's O.
C12_Witness ==
  /\ mode = "HUMAN_AI" /\ lastOp = [op |-> "click", path |-> "placed"]
  /\ Count(board, "X") = 2 /\ Count(board, "O") = 1
  /\ timer = << board >>

\* C13: restartRound, whatever the state it is issued in, leaves an empty
\* board, X the active mark and the round active, and changes neither the
\* three score counters nor the mode.
C13_RestartRound ==
  [][lastOp'.op = "restartRound"
       => /\ board' = EmptyBoard /\ xIsNext' /\ gameActive'
          /\ scores' = scores
          /\ mode' = mode]_vars

\* A restartRound in HUMAN_AI mode with a drawn round on the score.
C13_Witness ==
  /\ lastOp.op = "restartRound" /\ mode = "HUMAN_AI"
  /\ scores.draws = 1 /\ board = EmptyBoard

\* C14: newGame, whatever the state it is issued in, does what restartRound
\* does and zeroes the three score counters, the mode unchanged; and a zero
\* score stays zero until a placement ends a round.
C14_NewGame ==
  [][/\ lastOp'.op = "newGame"
          => /\ board' = EmptyBoard /\ xIsNext' /\ gameActive'
             /\ scores' = ZeroScores
             /\ mode' = mode
     /\ (scores = ZeroScores /\ scores' # ZeroScores)
          => /\ lastOp'.op \in {"click", "timer"}
             /\ Outcome(board) = "none" /\ Outcome(board') # "none"]_vars

\* A newGame issued in HUMAN_AI mode while an advisor move was pending.
C14_Witness ==
  /\ lastOp = [op |-> "newGame", path |-> "pending"]
  /\ scores = ZeroScores /\ mode = "HUMAN_AI" /\ gameActive

\* C15: changeMode(newMode), whatever the state it is issued in and also for
\* the current mode, makes newMode the mode, leaves an empty board, X the
\* active mark and the round active, and changes no score counter.
C15_ChangeMode ==
  [][lastOp'.op = "changeMode"
       => /\ board' = EmptyBoard /\ xIsNext' /\ gameActive'
          /\ scores' = scores
          /\ \A m \in Modes : ChangeMode(m) => mode' = m]_vars

\* A change to HUMAN_HUMAN while an advisor move was pending, a round won by
\* O on the score.
C15_Witness ==
  /\ lastOp = [op |-> "changeMode", path |-> "pending"]
  /\ mode = "HUMAN_HUMAN" /\ scores.O = 1

\* C16: for every board and every random choice, computeAIMove returns null
\* exactly when the board has no empty cell, and otherwise the index of a
\* cell that is empty on the board.
C16_MoveIsEmptyCell ==
  lastOp.op = "computeAIMove"
    => /\ (lastOp.ret = NullIdx) <=> Full(board)
       /\ lastOp.ret # NullIdx => (lastOp.ret \in Cells /\ board[lastOp.ret] = Null)

\* computeAIMove has returned the only empty cell, cell 0, of a board.
C16_Witness ==
  /\ lastOp.op = "computeAIMove" /\ lastOp.ret = 0
  /\ Marks(board) = Cells \ {0}

\* The cells of line k, and the empty cells whose filling with mark m
\* completes a line.
LineCells(k) == {LINES[k][1], LINES[k][2], LINES[k][3]}
CompletesLine(b, c, m) ==
  /\ b[c] = Null
  /\ \E k \in 1..Len(LINES) :
       c \in LineCells(k) /\ \A d \in LineCells(k) \ {c} : b[d] = m
WinCells(b, m) == {c \in Cells : CompletesLine(b, c, m)}
EmptyOf(b, S) == {c \in S : b[c] = Null}

\* The first applicable tier of the priority order: win, block, center,
\* corners, edges.
FirstTier(b, ai, human) ==
  IF WinCells(b, ai) # {} THEN WinCells(b, ai)
  ELSE IF WinCells(b, human) # {} THEN WinCells(b, human)
  ELSE IF b[4] = Null THEN {4}
  ELSE IF EmptyOf(b, {0, 2, 6, 8}) # {} THEN EmptyOf(b, {0, 2, 6, 8})
  ELSE EmptyOf(b, {1, 3, 5, 7})

XXOOBoard ==
  [c \in Cells |-> IF c \in {0, 1} THEN "X" ELSE IF c \in {3, 4} THEN "O" ELSE Null]

C18_FirstCompleteLine ==
  [][lastOp'.op = "calculateWinner"
       => /\ board' = board
          /\ LET done == CompleteLines(board)
                 ret  == lastOp'.ret
             IN  IF done = {}
                 THEN ret.winner = Null /\ ret.line = << >>
                 ELSE /\ \E k \in done :
                           /\ \A j \in done : k <= j
                           /\ ret.line = LINES[k]
                      /\ ret.winner \in PlayerMarks
                      /\ \A n \in 1..3 : board[ret.line[n]] = ret.winner]_vars

\* calculateWinner has returned the first of two complete lines, a row of X
\* before a row of O.
C18_Witness ==
  /\ lastOp.op = "calculateWinner"
  /\ lastOp.ret = [winner |-> "X", line |-> <<3, 4, 5>>]
  /\ CompleteLines(board) = {2, 3}

\* C19: the advisor can be beaten.  In HUMAN_AI mode X completes a line only
\* by a click, the X score is then incremented and the round ends; and the
\* advisor leaves X a cell that completes a line only when X had two or more
\* such cells before the advisor's move, of which it blocked one.
C19_AdvisorLosesToForks ==
  [][/\ (mode = "HUMAN_AI" /\ ~HasLine(board, "X") /\ HasLine(board', "X"))
          => /\ lastOp' = [op |-> "click", path |-> "placed"]
             /\ scores' = [scores EXCEPT !.X = @ + 1]
             /\ ~gameActive'
     /\ (lastOp'.op = "timer" /\ ~HasAnyLine(board') /\ WinCells(board', "X") # {})
          => /\ Cardinality(WinCells(board, "X")) >= 2
             /\ \E c \in WinCells(board, "X") : board'[c] = "O"]_vars

\* X has won a round against the advisor, from the empty board, and has been
\* given the point.
C19_Witness ==
  /\ mode = "HUMAN_AI" /\ lastOp = [op |-> "click", path |-> "placed"]
  /\ HasLine(board, "X") /\ ~gameActive
  /\ scores.X = 1 /\ tally.X = 1

\* C20: in every state the board holds as many X as O, or one X more, and X
\* is the active mark exactly when it holds as many X as O.
C20_TurnMatchesCounts ==
  LET nx == Count(board, "X")
      no == Count(board, "O")
  IN  /\ nx - no \in {0, 1}
      /\ xIsNext <=> (nx = no)

\* A round has ended on X's third mark, O left the active mark.
C20_Witness ==
  /\ ~gameActive /\ ~xIsNext
  /\ Count(board, "X") = 3 /\ Count(board, "O") = 2

====
